---- MODULE Spec2Model ----
(***************************************************************************)
(* A state-machine model of pan.wfapi (src/lib/pan/wfapi.py): the          *)
(* PanWFapi client, its response classifier, its transport wrapper and the *)
(* minimal RFC 2388 form builder.                                          *)
(*                                                                         *)
(* One client instance is modelled.  A public operation runs in two steps  *)
(* of one sequential call: the operation's own action (clear the response  *)
(* state, check arguments, build the request, hand it to the opener) and   *)
(* Receive (the call resumes with what the network yields, classifies the  *)
(* response and returns or raises).  No other operation can start between  *)
(* the two: the call blocks in opener.open().                              *)
(*                                                                         *)
(* The form builder is also modelled on its own (FormSpec): one            *)
(* _MultiPartFormData, any sequence of add_field and add_file calls, then  *)
(* http_headers() and http_body().                                         *)
(*                                                                         *)
(* Python values: None is the empty tuple, any other value v is <<v>>.     *)
(* Byte strings and text are sequences of tokens.                          *)
(***************************************************************************)
EXTENDS Integers, Sequences, FiniteSets, TLC

\* ------------------------------------------------------------------------
\* Bounds of the model
\* ------------------------------------------------------------------------
MaxBody == 1        \* longest response body, in tokens
MaxLinks == 2       \* longest links list handed to submit
MaxParts == 2       \* most parts added to a form used on its own

\* ------------------------------------------------------------------------
\* Python values
\* ------------------------------------------------------------------------
None == <<>>
Some(v) == <<v>>
NoExc == "no exception"

SeqsUpTo(S, n) == UNION {[1..k -> S] : k \in 0..n}

\* ------------------------------------------------------------------------
\* Module constants (wfapi.py 60-65) and the standard reason table
\* ------------------------------------------------------------------------
wildfire_responses == [c \in {418} |-> "Unsupported File Type"]

\* http.client.responses, restricted to the status codes the model sends
responses == [c \in {200, 404, 418} |->
                 CASE c = 200 -> "OK"
                   [] c = 404 -> "Not Found"
                   [] c = 418 -> "I'm a Teapot"]

\* ------------------------------------------------------------------------
\* What the network can yield for one exchange
\* ------------------------------------------------------------------------
StatusCodes == {200, 404, 418}
ReasonPhrases == {"", "Custom Reason"}

\* body bytes: CR, LF, one well-formed element, a text character, a byte
\* that is not valid UTF-8
Bytes == {"CR", "LF", "<a/>", "x", "0xFF"}
Bodies == SeqsUpTo(Bytes, MaxBody)

Absent == "(absent)"
NoParam == "(no parameter)"
DeclaredTypes == {"application/octet-stream", "application/xml", "text/xml",
                  "Text/XML", "application/json", "text/html", "text/plain",
                  "application/x-foo"}

\* response headers: the Content-Type value (or Absent), the name parameter
\* of Content-Type (or NoParam), the filename parameter of
\* Content-Disposition (Absent: no such header, NoParam: header without a
\* filename attribute).  The two filename sources are enumerated for
\* application/octet-stream, the only branch that reads them.
Headers ==
    {[content_type |-> t, name |-> NoParam, filename |-> Absent] :
        t \in (DeclaredTypes \cup {Absent}) \ {"application/octet-stream"}}
    \cup
    {[content_type |-> "application/octet-stream", name |-> n, filename |-> f] :
        n \in {NoParam, "n.bin"}, f \in {Absent, NoParam, "", "a.bin"}}

NoHeaders == [content_type |-> Absent, name |-> NoParam, filename |-> Absent]

\* read: what response.read() does ("ok", or the exception it raises)
Wire ==
    {[kind |-> k, code |-> 0, reason |-> "", headers |-> NoHeaders,
      body |-> <<>>, read |-> "ok"] :
        k \in {"CertificateError", "URLError", "TimeoutError", "BadStatusLine"}}
    \cup
    {[kind |-> "response", code |-> c, reason |-> r, headers |-> h,
      body |-> b, read |-> "ok"] :
        c \in StatusCodes, r \in ReasonPhrases, h \in Headers, b \in Bodies}
    \cup
    {[kind |-> "response", code |-> c, reason |-> r, headers |-> NoHeaders,
      body |-> <<>>, read |-> e] :
        c \in StatusCodes, r \in ReasonPhrases,
        e \in {"TimeoutError", "IncompleteRead"}}

\* ------------------------------------------------------------------------
\* The client instance
\* ------------------------------------------------------------------------
ResponseFields == {"http_code", "http_reason", "response_type",
                   "response_body", "xml_element_root", "attachment"}

VARIABLES
    self,       \* attributes of the PanWFapi instance; self.fresh is history:
                \* the response fields assigned during the current call
    uri,        \* URI scheme chosen by the constructor
    agent,      \* self.agent
    pc,         \* "idle": no call in progress; "sent": blocked in the opener
    call,       \* the call last started: its arguments, the request it
                \* built and what it attempted; dropped when Receive ends it
    wire,       \* history: what the network yielded to the call last received
    outcome,    \* how the last call ended
    formdata,   \* a _MultiPartFormData used on its own: its parts and boundary
    added,      \* history: the add_field / add_file calls made on formdata
    mime        \* what http_headers() and http_body() returned for formdata as
                \* it is now (None: not called since the last part was added)

formvars == <<formdata, added, mime>>

vars == <<self, uri, agent, pc, call, wire, outcome, formdata, added, mime>>

\* result of a private method: the instance, the return value, and the
\* exception that escaped it (NoExc: none)
Ret(s, r) == [self |-> s, ret |-> r, exc |-> NoExc]
Raise(s, e) == [self |-> s, ret |-> FALSE, exc |-> e]

\* self.<f> = v for a response field
Assign(s, f, v) == [s EXCEPT ![f] = Some(v), !.fresh = @ \cup {f}]

\* the text of self._msg
Msg(kind, code, text) == [kind |-> kind, code |-> code, text |-> text]

SetMsg(s, m) == [s EXCEPT !.msg = Some(m)]

\* ------------------------------------------------------------------------
\* Library calls the classifier relies on
\* ------------------------------------------------------------------------
\* email.message.Message.get_content_type(): lower-cased type/subtype,
\* parameters dropped; the default type when the header is missing
get_content_type(h) ==
    IF h.content_type = Absent THEN "text/plain"
    ELSE IF h.content_type = "Text/XML" THEN "text/xml"
    ELSE h.content_type

\* email.message.Message.get_filename(): the filename parameter of
\* Content-Disposition, else the name parameter of Content-Type, else None
get_filename(h) ==
    IF h.filename \notin {Absent, NoParam} THEN Some(h.filename)
    ELSE IF h.name # NoParam THEN Some(h.name)
    ELSE None

\* Python truthiness of an optional text or list (both are sequences)
Truthy(x) == x # None /\ x[1] # <<>>

\* bytes.decode('utf-8'): raises UnicodeDecodeError on an invalid byte
CanDecode(b) == \A i \in 1..Len(b) : b[i] # "0xFF"
Decode(b) == [i \in 1..Len(b) |-> b[i]]

\* the while loop of __set_xml_response: drop leading CR and LF bytes
RECURSIVE StripLeadingCRLF(_)
StripLeadingCRLF(b) ==
    IF b # <<>> /\ (b[1] = "CR" \/ b[1] = "LF")
    THEN StripLeadingCRLF(Tail(b))
    ELSE b

\* etree.fromstring(b) succeeds: exactly one element with nothing but
\* white space around it
XmlParses(b) ==
    /\ Cardinality({i \in 1..Len(b) : b[i] = "<a/>"}) = 1
    /\ \A i \in 1..Len(b) : b[i] \in {"<a/>", "CR", "LF"}

\* ------------------------------------------------------------------------
\* PanWFapi private methods
\* ------------------------------------------------------------------------
\* clear_response as it would be with the last assignment forgotten
clear_response_keeps_attachment(s) ==
    [s EXCEPT !.msg = None,
              !.http_code = None,
              !.http_reason = None,
              !.response_body = None,
              !.response_type = None,
              !.xml_element_root = None]

clear_response(s) ==
    [s EXCEPT !.msg = None,
              !.http_code = None,
              !.http_reason = None,
              !.response_body = None,
              !.response_type = None,
              !.xml_element_root = None,
              !.attachment = None]

set_stream_response(s, h, message_body) ==
    LET filename == get_filename(h)
    IN  IF filename = None \/ filename[1] = ""
        THEN Ret(SetMsg(s, Msg("no content-disposition response header", 0, "")),
                 FALSE)
        ELSE Ret(Assign(s, "attachment",
                        [filename |-> filename[1], content |-> message_body]),
                 TRUE)

\* set_xml_response as it would be without the assignment of response_body
set_xml_response_no_body(s, message_body) ==
    LET s1 == Assign(s, "response_type", "xml")
    IN  IF ~CanDecode(message_body) THEN Raise(s1, "UnicodeDecodeError")
        ELSE IF Len(Decode(message_body)) = 0 THEN Ret(s1, TRUE)
        ELSE LET stripped == StripLeadingCRLF(message_body)
             IN  IF Len(stripped) = 0 THEN Ret(s1, TRUE)
                 ELSE IF ~XmlParses(stripped)
                 THEN Ret(SetMsg(s1, Msg("ElementTree.fromstring ParseError",
                                         0, "")), FALSE)
                 ELSE Ret(Assign(s1, "xml_element_root", "Element"), TRUE)

\* set_xml_response as it would be without its two length checks
set_xml_response_no_empty_check(s, message_body) ==
    LET s1 == Assign(s, "response_type", "xml")
    IN  IF ~CanDecode(message_body) THEN Raise(s1, "UnicodeDecodeError")
        ELSE LET s2 == Assign(s1, "response_body", Decode(message_body))
                 stripped == StripLeadingCRLF(message_body)
             IN  IF ~XmlParses(stripped)
                 THEN Ret(SetMsg(s2, Msg("ElementTree.fromstring ParseError",
                                         0, "")), FALSE)
                 ELSE Ret(Assign(s2, "xml_element_root", "Element"), TRUE)

set_xml_response(s, message_body) ==
    LET s1 == Assign(s, "response_type", "xml")
    IN  IF ~CanDecode(message_body) THEN Raise(s1, "UnicodeDecodeError")
        ELSE IF Len(Decode(message_body)) = 0 THEN Ret(s1, TRUE)
        ELSE LET s2 == Assign(s1, "response_body", Decode(message_body))
                 stripped == StripLeadingCRLF(message_body)
             IN  IF Len(stripped) = 0 THEN Ret(s2, TRUE)
                 ELSE IF ~XmlParses(stripped)
                 THEN Ret(SetMsg(s2, Msg("ElementTree.fromstring ParseError",
                                         0, "")), FALSE)
                 ELSE Ret(Assign(s2, "xml_element_root", "Element"), TRUE)

\* the shared shape of the text decoders, tag given by the caller
set_text_response(s, tag, message_body) ==
    LET s1 == Assign(s, "response_type", tag)
    IN  IF ~CanDecode(message_body) THEN Raise(s1, "UnicodeDecodeError")
        ELSE IF Len(Decode(message_body)) = 0 THEN Ret(s1, TRUE)
        ELSE Ret(Assign(s1, "response_body", Decode(message_body)), TRUE)

set_json_response(s, message_body) == set_text_response(s, "json", message_body)

set_html_response(s, message_body) == set_text_response(s, "html", message_body)

set_txt_response(s, message_body) == set_text_response(s, "txt", message_body)

\* response: a Wire record of kind "response"
set_response(s, response) ==
    IF response.read # "ok" THEN Raise(s, response.read)
    ELSE
    LET message_body == response.body
        content_type == get_content_type(response.headers)
    IN  IF content_type = ""
        THEN Ret(IF s.msg = None
                 THEN SetMsg(s, Msg("no content-type response header", 0, ""))
                 ELSE s, FALSE)
        ELSE IF content_type = "application/octet-stream"
        THEN set_stream_response(s, response.headers, message_body)
        ELSE IF content_type = "application/xml" \/ content_type = "text/xml"
        THEN set_xml_response(s, message_body)
        ELSE IF content_type = "application/json"
        THEN set_json_response(s, message_body)
        ELSE IF content_type = "text/html"
        THEN set_html_response(s, message_body)
        ELSE IF content_type = "text/plain"
        THEN set_txt_response(s, message_body)
        ELSE Ret(SetMsg(s, Msg("no handler for content-type", 0, content_type)),
                 FALSE)

\* _urlopen: the opener's error processor is replaced for https_response
\* only; an http exchange still goes through HTTPErrorProcessor.http_response,
\* which raises HTTPError for a status outside 200..299
urlopen(scheme, w) ==
    IF w.kind # "response" THEN w.kind
    ELSE IF scheme = "http" /\ ~(200 <= w.code /\ w.code < 300) THEN "HTTPError"
    ELSE NoExc

\* the reason substituted for an empty reason phrase
substitute_reason(code, reason) ==
    IF reason = ""
    THEN IF code \in DOMAIN wildfire_responses THEN wildfire_responses[code]
         ELSE IF code \in DOMAIN responses THEN responses[code]
         ELSE reason
    ELSE reason

\* __api_request, from the call of the opener on; ret = TRUE stands for
\* returning the response object
api_request(s, scheme, w) ==
    LET e == urlopen(scheme, w)
    IN  IF e = "CertificateError"
        THEN Ret(SetMsg(s, Msg("ssl.CertificateError", 0, "")), FALSE)
        ELSE IF e \in {"URLError", "TimeoutError"}
        THEN Ret(SetMsg(s, Msg(e, 0, "")), FALSE)
        ELSE IF e = "HTTPError"
        THEN Ret(SetMsg(s, Msg("HTTP Error", w.code, w.reason)), FALSE)
        ELSE IF e # NoExc THEN Raise(s, e)
        ELSE
        LET s1 == Assign(s, "http_code", w.code)
            s2 == Assign(s1, "http_reason", substitute_reason(w.code, w.reason))
        IN  IF ~(200 <= w.code /\ w.code < 300)
            THEN LET s3 == SetMsg(s2, Msg("HTTP Error", w.code,
                                          s2.http_reason[1]))
                     r == set_response(s3, w)
                 IN  IF r.exc # NoExc THEN r ELSE Ret(r.self, FALSE)
            ELSE Ret(s2, TRUE)

\* the tail every public operation shares (e.g. lines 412-418): the result
\* of __api_request, then of __set_response
finish_call(s, scheme, w) ==
    LET a == api_request(s, scheme, w)
    IN  IF a.exc # NoExc THEN a
        ELSE IF ~a.ret THEN Raise(a.self, "PanWFapiError")
        ELSE LET b == set_response(a.self, w)
             IN  IF b.exc # NoExc THEN b
                 ELSE IF ~b.ret THEN Raise(b.self, "PanWFapiError")
                 ELSE b

\* ------------------------------------------------------------------------
\* Minimal RFC 2388 implementation: _FormDataPart and _MultiPartFormData
\* ------------------------------------------------------------------------
RECURSIVE Join(_, _)
Join(items, sep) ==
    IF items = <<>> THEN <<>>
    ELSE IF Len(items) = 1 THEN items[1]
    ELSE items[1] \o sep \o Join(Tail(items), sep)

add_header(part, header) == [part EXCEPT !.headers = Append(@, header)]

\* _rfc2231_encode is False: name="value"
encode_field(name, value) == <<name, "=", "\"">> \o value \o <<"\"">>

append_header(part, name, value) ==
    [part EXCEPT !.headers[Len(part.headers)] =
                      @ \o <<"; ">> \o encode_field(name, value)]

add_body(part, body) == [part EXCEPT !.body = Some(body)]

FormDataPart(name, body) ==
    LET p1 == add_header([headers |-> <<>>, body |-> None],
                         <<"Content-Disposition: form-data">>)
        p2 == append_header(p1, "name", name)
    IN  IF body # None THEN add_body(p2, body[1]) ELSE p2

serialize(part) ==
    Join(part.headers, <<"CRLF">>) \o <<"CRLF", "CRLF">>
        \o (IF part.body # None THEN part.body[1] ELSE <<>>)

MultiPartFormData(boundary) == [parts |-> <<>>, boundary |-> boundary]

add_field(form, name, value) ==
    [form EXCEPT !.parts = Append(@, FormDataPart(<<name>>, Some(value)))]

\* add_file as it would be if the Content-Type header did not depend on a
\* body being given
add_file_always_typed(form, filename, body) ==
    LET p0 == FormDataPart(<<"file">>, None)
        p1 == IF filename # None
              THEN append_header(p0, "filename", filename[1]) ELSE p0
        p2 == add_header(p1, <<"Content-Type: application/octet-stream">>)
        p3 == IF body # None THEN add_body(p2, body[1]) ELSE p2
    IN  [form EXCEPT !.parts = Append(@, p3)]

add_file(form, filename, body) ==
    LET p0 == FormDataPart(<<"file">>, None)
        p1 == IF filename # None
              THEN append_header(p0, "filename", filename[1]) ELSE p0
        p2 == IF body # None
              THEN add_body(add_header(p1,
                       <<"Content-Type: application/octet-stream">>), body[1])
              ELSE p1
    IN  [form EXCEPT !.parts = Append(@, p2)]

http_headers(form) ==
    <<"Content-Type", "multipart/form-data; boundary=", form.boundary>>

RECURSIVE WriteParts(_, _)
WriteParts(parts, boundary) ==
    IF parts = <<>> THEN <<>>
    ELSE boundary \o <<"CRLF">> \o serialize(parts[1]) \o <<"CRLF">>
             \o WriteParts(Tail(parts), boundary)

http_body(form) ==
    LET boundary == <<"--", form.boundary>>
    IN  WriteParts(form.parts, boundary) \o boundary \o <<"--">>

\* ------------------------------------------------------------------------
\* Building a request
\* ------------------------------------------------------------------------
api_key == <<"K">>

\* urllib.parse.urlencode of the pairs of a dict, in insertion order
urlencode(query) ==
    Join([i \in 1..Len(query) |-> <<query[i][1], "=">> \o query[i][2]], <<"&">>)

\* the entry query[k] = v, made when v is not None
Entry(k, v) == IF v # None THEN <<<<k, v[1]>>>> ELSE <<>>

\* urllib.request.Request.get_method()
get_method(data) == IF data # None THEN "POST" ELSE "GET"

\* __api_request up to the call of the opener: the body as bytes, the
\* Request and its method
build_request(request_uri, body, headers) ==
    [path |-> request_uri, data |-> Some(body), headers |-> headers,
     method |-> get_method(Some(body))]

NoRequest == [path |-> "", data |-> None, headers |-> None, method |-> ""]

\* found: a response field was still set when the call started
NoCall == [op |-> "", args |-> <<>>, request |-> NoRequest,
           file_read |-> FALSE, network |-> FALSE, found |-> FALSE]

FoundResponse == \E f \in ResponseFields : self[f] # None

NoWire == [kind |-> "", code |-> 0, reason |-> "", headers |-> NoHeaders,
           body |-> <<>>, read |-> "ok"]

\* history: a new call starts, nothing is assigned by it yet
BeginCall(s) == [s EXCEPT !.fresh = {}]

Pending == [status |-> "pending", exc |-> NoExc, message |-> None]

\* a public operation hands its request to __api_request
Send(op, args, file_read, req) ==
    /\ self' = clear_response(BeginCall(self))
    /\ call' = [op |-> op, args |-> args, request |-> req,
                file_read |-> file_read, network |-> TRUE,
                found |-> FoundResponse]
    /\ pc' = "sent"
    /\ outcome' = Pending
    /\ wire' = NoWire
    /\ UNCHANGED <<uri, agent, formvars>>

\* a public operation raises PanWFapiError before any exchange
Fail(op, args, file_read, message) ==
    /\ self' = clear_response(BeginCall(self))
    /\ call' = [op |-> op, args |-> args, request |-> NoRequest,
                file_read |-> file_read, network |-> FALSE,
                found |-> FoundResponse]
    /\ pc' = "idle"
    /\ outcome' = [status |-> "raised", exc |-> "PanWFapiError",
                   message |-> Some(message)]
    /\ wire' = NoWire
    /\ UNCHANGED <<uri, agent, formvars>>

\* ------------------------------------------------------------------------
\* Arguments of the public operations
\* ------------------------------------------------------------------------
OptText == {None, Some(<<"v">>)}
OptHashes == {None, Some(<<"h1", "h2">>)}
OptFile == {None, Some(<<>>), Some(<<"dir/", "f">>)}
OptUrl == {None, Some(<<>>), Some(<<"u">>)}
LinkAtoms == {"panlnk", "l1"}
OptLinks == {None} \cup {Some(l) : l \in SeqsUpTo(LinkAtoms, MaxLinks)}
Boundaries == {"_b1"}
FileBytes == <<"bytes">>

AgentEntry == Entry("agent", agent)

\* ------------------------------------------------------------------------
\* Public operations: query-string requests
\* ------------------------------------------------------------------------
Report ==
    /\ pc = "idle"
    /\ \E hash \in OptText, format \in OptText, url \in OptText :
          LET query == <<<<"apikey", api_key>>>> \o AgentEntry
                         \o Entry("hash", hash) \o Entry("format", format)
                         \o Entry("url", url)
          IN  Send("report", <<>>, FALSE,
                   build_request("/publicapi/get/report", urlencode(query), None))

Verdict ==
    /\ pc = "idle"
    /\ \E hash \in OptText, url \in OptText :
          LET query == <<<<"apikey", api_key>>>> \o AgentEntry
                         \o Entry("hash", hash) \o Entry("url", url)
          IN  Send("verdict", <<>>, FALSE,
                   build_request("/publicapi/get/verdict", urlencode(query), None))

VerdictsChanged ==
    /\ pc = "idle"
    /\ \E date \in OptText :
          LET query == <<<<"apikey", api_key>>>> \o AgentEntry
                         \o Entry("date", date)
          IN  Send("verdicts_changed", <<>>, FALSE,
                   build_request("/publicapi/get/verdicts/changed",
                                 urlencode(query), None))

Sample ==
    /\ pc = "idle"
    /\ \E hash \in OptText :
          LET query == <<<<"apikey", api_key>>>> \o AgentEntry
                         \o Entry("hash", hash)
          IN  Send("sample", <<>>, FALSE,
                   build_request("/publicapi/get/sample", urlencode(query), None))

Pcap ==
    /\ pc = "idle"
    /\ \E hash \in OptText, platform \in OptText :
          LET query == <<<<"apikey", api_key>>>> \o AgentEntry
                         \o Entry("hash", hash) \o Entry("platform", platform)
          IN  Send("pcap", <<>>, FALSE,
                   build_request("/publicapi/get/pcap", urlencode(query), None))

Testfile ==
    /\ pc = "idle"
    /\ \E file_type \in {None, Some(<<"elf">>)} :
          LET request_uri == IF file_type = None THEN "/publicapi/test/pe"
                             ELSE "/publicapi/test/elf"
              query == <<>>
          IN  Send("testfile", <<>>, FALSE,
                   build_request(request_uri, urlencode(query), None))

\* ------------------------------------------------------------------------
\* Public operations: multipart requests
\* ------------------------------------------------------------------------
\* the form every multipart operation starts from
NewForm(boundary) ==
    LET form == add_field(MultiPartFormData(boundary), "apikey", api_key)
    IN  IF agent # None THEN add_field(form, "agent", agent[1]) ELSE form

Verdicts ==
    /\ pc = "idle"
    /\ \E hashes \in OptHashes, boundary \in Boundaries :
          LET form0 == NewForm(boundary)
              form == IF hashes # None
                      THEN add_field(form0, "file",
                               Join([i \in 1..Len(hashes[1]) |-> <<hashes[1][i]>>],
                                    <<"LF">>))
                      ELSE form0
          IN  Send("verdicts", <<>>, FALSE,
                   build_request("/publicapi/get/verdicts", http_body(form),
                                 Some(http_headers(form))))

ChangeRequest ==
    /\ pc = "idle"
    /\ \E hash \in OptText, verdict \in OptText, email \in OptText,
          comment \in OptText, boundary \in Boundaries :
          LET form0 == NewForm(boundary)
              form1 == IF hash # None
                       THEN add_field(form0, "hash", hash[1]) ELSE form0
              form2 == IF verdict # None
                       THEN add_field(form1, "verdict", verdict[1]) ELSE form1
              form3 == IF email # None
                       THEN add_field(form2, "email", email[1]) ELSE form2
              form == IF comment # None
                      THEN add_field(form3, "comment", comment[1]) ELSE form3
          IN  Send("change_request", <<>>, FALSE,
                   build_request("/publicapi/submit/change-request",
                                 http_body(form), Some(http_headers(form))))

\* the precondition as it would be if it counted the arguments that are
\* not None
submit_precondition_counts_not_none(file, url, links) ==
    Cardinality({i \in 1..3 : <<file, url, links>>[i] # None}) # 1

\* sum(bool(x) for x in [file, url, links]) != 1
submit_precondition_fails(file, url, links) ==
    Cardinality({i \in 1..3 : Truthy(<<file, url, links>>[i])}) # 1

\* lines 559-566; evaluated after the precondition has passed
submit_request_uri(file, url, links) ==
    IF file # None THEN "/publicapi/submit/file"
    ELSE IF url # None THEN "/publicapi/submit/url"
    ELSE IF Len(links[1]) < 2 THEN "/publicapi/submit/link"
    ELSE "/publicapi/submit/links"

\* os.path.basename
basename(path) == IF path = <<>> THEN <<>> ELSE <<path[Len(path)]>>

\* _read_file: None when open() fails
read_file(path, readable) == IF readable THEN Some(FileBytes) ELSE None

\* lines 580-594: the url and links parts
submit_payload(form, url, links) ==
    LET form1 == IF url # None THEN add_field(form, "url", url[1]) ELSE form
        lines == IF links # None
                 THEN Join([i \in 1..Len(links[1]) |-> <<links[1][i]>>], <<"LF">>)
                 ELSE <<>>
    IN  IF links = None THEN form1
        ELSE IF Len(links[1]) = 1
        THEN add_field(form1, "link", <<links[1][1]>>)
        ELSE IF Len(links[1]) > 1
        THEN IF links[1][1] = "panlnk"
             THEN add_file(form1, Some(<<"pan">>), Some(lines))
             ELSE add_file(form1, Some(<<"pan">>),
                           Some(<<"panlnk", "LF">> \o lines))
        ELSE form1

Submit ==
    /\ pc = "idle"
    /\ \E file \in OptFile, url \in OptUrl, links \in OptLinks,
          boundary \in Boundaries :
          \* open() of the empty path always fails; only a call that passes
          \* the precondition with a file given reaches open()
          \E readable \in IF Truthy(file) /\ ~submit_precondition_fails(file, url, links)
                       THEN BOOLEAN ELSE {FALSE} :
          LET args == [file |-> file, url |-> url, links |-> links]
          IN
          /\ IF submit_precondition_fails(file, url, links)
             THEN Fail("submit", args, FALSE,
                       Msg("must submit one of file, url or links", 0, ""))
             ELSE
             LET request_uri == submit_request_uri(file, url, links)
                 form0 == NewForm(boundary)
                 buf == read_file(file[1], readable)
             IN  IF file # None /\ buf = None
                 THEN Fail("submit", args, TRUE, Msg("open", 0, ""))
                 ELSE
                 LET form1 == IF file # None
                              THEN add_file(form0, Some(basename(file[1])), buf)
                              ELSE form0
                     form == submit_payload(form1, url, links)
                 IN  Send("submit", args, file # None,
                          build_request(request_uri, http_body(form),
                                        Some(http_headers(form))))

\* ------------------------------------------------------------------------
\* The call in progress resumes with what the network yields
\* ------------------------------------------------------------------------
Receive ==
    /\ pc = "sent"
    /\ \E w \in Wire :
          LET r == finish_call(self, uri, w)
          IN  /\ self' = r.self
              /\ wire' = w
              /\ outcome' = IF r.exc = NoExc
                            THEN [status |-> "returned", exc |-> NoExc,
                                  message |-> None]
                            ELSE [status |-> "raised", exc |-> r.exc,
                                  message |-> IF r.exc = "PanWFapiError"
                                              THEN r.self.msg ELSE None]
    /\ pc' = "idle"
    /\ call' = NoCall
    /\ UNCHANGED <<uri, agent, formvars>>

\* ------------------------------------------------------------------------
\* Specification
\* ------------------------------------------------------------------------
\* no form is used on its own while the client is exercised
NoForm == [parts |-> <<>>, boundary |-> ""]

\* the state after __init__: no response attribute is set yet
Init ==
    /\ self = [msg |-> None, http_code |-> None, http_reason |-> None,
               response_body |-> None, response_type |-> None,
               xml_element_root |-> None, attachment |-> None, fresh |-> {}]
    /\ uri \in {"https", "http"}
    /\ agent \in {None, Some(<<"A">>)}
    /\ pc = "idle"
    /\ call = NoCall
    /\ wire = NoWire
    /\ outcome = [status |-> "none", exc |-> NoExc, message |-> None]
    /\ formdata = NoForm
    /\ added = <<>>
    /\ mime = None

Next ==
    \/ Report
    \/ Verdict
    \/ Verdicts
    \/ VerdictsChanged
    \/ Sample
    \/ Pcap
    \/ Testfile
    \/ Submit
    \/ ChangeRequest
    \/ Receive

Spec == Init /\ [][Next]_vars

\* ------------------------------------------------------------------------
\* The form builder on its own: one _MultiPartFormData, any sequence of
\* add_field / add_file calls, then http_headers() and http_body()
\* ------------------------------------------------------------------------
\* _boundary() draws the token at random
FormBoundaries == Boundaries \cup {"_b2"}

FieldNames == {"apikey", "file"}

\* values and bodies handed to the form: empty, plain content, and content
\* that holds a line made of two dashes and the token "_b1"
Contents == {<<>>, <<"v">>, <<"CRLF", "--", "_b1">>}

OptFilename == {None, Some(<<"pan">>)}

AddField ==
    /\ Len(formdata.parts) < MaxParts
    /\ \E name \in FieldNames, value \in Contents :
          /\ formdata' = add_field(formdata, name, value)
          /\ added' = Append(added, [op |-> "add_field", name |-> name,
                                     filename |-> None, body |-> Some(value)])
    /\ mime' = None
    /\ UNCHANGED <<self, uri, agent, pc, call, wire, outcome>>

AddFile ==
    /\ Len(formdata.parts) < MaxParts
    /\ \E filename \in OptFilename, body \in {None} \cup {Some(c) : c \in Contents} :
          /\ formdata' = add_file(formdata, filename, body)
          /\ added' = Append(added, [op |-> "add_file", name |-> "file",
                                     filename |-> filename, body |-> body])
    /\ mime' = None
    /\ UNCHANGED <<self, uri, agent, pc, call, wire, outcome>>

HttpBody ==
    /\ mime = None
    /\ mime' = Some([headers |-> http_headers(formdata), body |-> http_body(formdata)])
    /\ UNCHANGED <<self, uri, agent, pc, call, wire, outcome, formdata, added>>

FormInit ==
    /\ self = [msg |-> None, http_code |-> None, http_reason |-> None,
               response_body |-> None, response_type |-> None,
               xml_element_root |-> None, attachment |-> None, fresh |-> {}]
    /\ uri = "https"
    /\ agent = None
    /\ pc = "idle"
    /\ call = NoCall
    /\ wire = NoWire
    /\ outcome = [status |-> "none", exc |-> NoExc, message |-> None]
    /\ \E boundary \in FormBoundaries : formdata = MultiPartFormData(boundary)
    /\ added = <<>>
    /\ mime = None

FormNext ==
    \/ AddField
    \/ AddFile
    \/ HttpBody

FormSpec == FormInit /\ [][FormNext]_vars

\* ------------------------------------------------------------------------
\* Properties
\* ------------------------------------------------------------------------
\* a well-formed HTTP response arrived and its body was read completely
ResponseArrived == pc = "idle" /\ wire.kind = "response" /\ wire.read = "ok"

Is2xx(code) == 200 <= code /\ code < 300

Populated(f) == self[f] # None

BodyFields == {"response_body", "xml_element_root", "attachment"}

\* the classifier returned True for the response of the last call: the call
\* returned, or it raised for the HTTP status alone
ClassifiedOK ==
    /\ ResponseArrived
    /\ \/ outcome.status = "returned"
       \/ /\ outcome.exc = "PanWFapiError"
          /\ Populated("http_code")
          /\ self.msg # None
          /\ self.msg[1].kind = "HTTP Error"

\* C1: at every point of every call, and so whenever an operation ends by
\* returning or raising, each response field is either unset or was assigned
\* during that same call; a value left by an earlier call is never visible.
C1_NoStaleResponseField ==
    \A f \in ResponseFields : self[f] = None \/ f \in self.fresh

\* C1 witness: submit raised on its precondition on an instance that still
\* held a response of an earlier call, and every field is unset.
C1_Witness ==
    /\ pc = "idle"
    /\ call.op = "submit"
    /\ call.found
    /\ outcome.status = "raised"
    /\ \A f \in ResponseFields : self[f] = None

\* C2 as stated: after a non-empty body classified successfully, exactly
\* one of response_body, attachment, xml_element_root is populated, it
\* matches the response_type tag, and the tag is one of attachment, xml,
\* json, html, text, none (the code's spellings 'txt' for text and an unset
\* tag for none are accepted here).
C2_ExactlyOnePopulated ==
    (ClassifiedOK /\ wire.body # <<>>) =>
        /\ Cardinality({f \in BodyFields : Populated(f)}) = 1
        /\ self.response_type \in {None, Some("attachment"), Some("xml"),
                                   Some("json"), Some("html"), Some("text"),
                                   Some("txt"), Some("none")}
        /\ Populated("attachment") =>
               self.response_type \in {None, Some("attachment")}
        /\ Populated("xml_element_root") => self.response_type = Some("xml")
        /\ Populated("response_body") =>
               self.response_type \in {Some("xml"), Some("json"), Some("html"),
                                       Some("text"), Some("txt")}

\* C2 amended: after a non-empty body classified successfully, response_type
\* is unset or one of xml, json, html, txt; attachment is populated exactly
\* when response_type is unset, and then it holds the raw body and neither
\* other field is populated; response_body is populated with the decoded
\* body exactly when response_type is set; xml_element_root is populated
\* exactly when response_type is xml and the body has content after its
\* leading CR/LF bytes.
C2_PopulatedPerTag ==
    (ClassifiedOK /\ wire.body # <<>>) =>
        /\ self.response_type \in {None, Some("xml"), Some("json"),
                                   Some("html"), Some("txt")}
        /\ Populated("attachment") <=> self.response_type = None
        /\ Populated("attachment") =>
               /\ self.attachment[1].content = wire.body
               /\ ~Populated("response_body")
               /\ ~Populated("xml_element_root")
        /\ Populated("response_body") <=> self.response_type # None
        /\ Populated("response_body") => self.response_body[1] = wire.body
        /\ Populated("xml_element_root") <=>
               /\ self.response_type = Some("xml")
               /\ \E i \in 1..Len(wire.body) : wire.body[i] \notin {"CR", "LF"}

\* C2 witness: a well-formed XML body was classified; response_body and
\* xml_element_root are both populated.
C2_Witness ==
    /\ ClassifiedOK
    /\ wire.body # <<>>
    /\ outcome.status = "returned"
    /\ self.response_type = Some("xml")
    /\ Populated("response_body")
    /\ Populated("xml_element_root")

\* C3: for a well-formed response with a status outside 200..299 and a
\* decodable body, under either URI scheme, http_code and http_reason are
\* captured, the body goes through the classifier and its decoded content
\* is attached (the text of a text/plain body, the attachment of a named
\* octet-stream body), and the operation raises PanWFapiError.
C3_ErrorStatusClassified ==
    (ResponseArrived /\ ~Is2xx(wire.code) /\ CanDecode(wire.body)) =>
        /\ outcome.status = "raised"
        /\ outcome.exc = "PanWFapiError"
        /\ self.http_code = Some(wire.code)
        /\ Populated("http_reason")
        /\ (/\ wire.headers.content_type = "text/plain"
            /\ wire.body # <<>>) => self.response_body = Some(wire.body)
        /\ (/\ wire.headers.content_type = "application/octet-stream"
            /\ wire.headers.filename = "a.bin") =>
               self.attachment = Some([filename |-> "a.bin",
                                       content |-> wire.body])

\* C4: a response whose Content-Type is outside the fixed set of six, or
\* that has no Content-Type header, makes the operation raise PanWFapiError
\* and leaves response_body, xml_element_root and attachment unset.
C4_UnknownTypeIsFailure ==
    (/\ ResponseArrived
     /\ wire.headers.content_type \notin
            {"application/octet-stream", "application/xml", "text/xml",
             "application/json", "text/html", "text/plain"}) =>
        /\ outcome.status = "raised"
        /\ outcome.exc = "PanWFapiError"
        /\ \A f \in BodyFields : ~Populated(f)

\* C5: whenever a public operation fails, what reaches the caller is
\* PanWFapiError carrying a message, whatever failed: the transport, the
\* reading of the body or its decoding.
C5_OnlyClientErrorEscapes ==
    outcome.status = "raised" =>
        /\ outcome.exc = "PanWFapiError"
        /\ outcome.message # None

\* the number of submit arguments that are supplied, an empty string or an
\* empty list counting as not supplied
Supplied(x) == x # None /\ Len(x[1]) > 0

NSupplied(a) ==
    (IF Supplied(a.file) THEN 1 ELSE 0) + (IF Supplied(a.url) THEN 1 ELSE 0)
        + (IF Supplied(a.links) THEN 1 ELSE 0)

PreconditionError ==
    /\ pc = "idle"
    /\ outcome.status = "raised"
    /\ outcome.exc = "PanWFapiError"
    /\ outcome.message =
           Some(Msg("must submit one of file, url or links", 0, ""))

\* C6: submit raises the precondition error, with no file read and no
\* network call attempted, whenever the number of supplied (non-empty)
\* arguments among file, url, links is not exactly one; when exactly one is
\* supplied the precondition error is not raised.
C6_SubmitExactlyOne ==
    call.op = "submit" =>
        /\ NSupplied(call.args) # 1 =>
               /\ PreconditionError
               /\ ~call.file_read
               /\ ~call.network
        /\ NSupplied(call.args) = 1 => ~PreconditionError

\* C6 witness: submit was called with both file and url and raised the
\* precondition error.
C6_Witness ==
    /\ call.op = "submit"
    /\ Supplied(call.args.file)
    /\ Supplied(call.args.url)
    /\ PreconditionError

\* C7: a request whose encoded body is empty or absent is sent as GET, a
\* request with a non-empty body as POST.
C7_MethodFromBody ==
    pc = "sent" =>
        /\ (call.request.data = None \/ call.request.data = Some(<<>>)) =>
               call.request.method = "GET"
        /\ (call.request.data # None /\ call.request.data # Some(<<>>)) =>
               call.request.method = "POST"

\* C8: after an exchange that yields a well-formed response, an empty reason
\* phrase is replaced from the status table, the service's entry first (418
\* gives "Unsupported File Type"), and a non-empty reason phrase is kept.
C8_ReasonSubstituted ==
    ResponseArrived =>
        /\ (wire.reason = "" /\ wire.code = 418) =>
               self.http_reason = Some("Unsupported File Type")
        /\ (wire.reason = "" /\ wire.code = 200) =>
               self.http_reason = Some("OK")
        /\ (wire.reason = "" /\ wire.code = 404) =>
               self.http_reason = Some("Not Found")
        /\ wire.reason # "" => self.http_reason = Some(wire.reason)

XmlTypes == {"application/xml", "text/xml"}
TextTypes == {"application/json", "text/html", "text/plain"}

\* C9: a 2xx response with an empty body and a content-type of
\* application/xml, text/xml, application/json, text/html or text/plain
\* makes the operation return, with response_body and xml_element_root
\* unset; an XML body made only of CR/LF bytes also makes it return with
\* xml_element_root unset.
C9_EmptyBodyIsSuccess ==
    (ResponseArrived /\ Is2xx(wire.code)) =>
        /\ (/\ wire.headers.content_type \in XmlTypes \cup TextTypes
            /\ wire.body = <<>>) =>
               /\ outcome.status = "returned"
               /\ ~Populated("response_body")
               /\ ~Populated("xml_element_root")
        /\ (/\ wire.headers.content_type \in XmlTypes
            /\ wire.body # <<>>
            /\ \A i \in 1..Len(wire.body) : wire.body[i] \in {"CR", "LF"}) =>
               /\ outcome.status = "returned"
               /\ ~Populated("xml_element_root")

\* C9 witness: a call returned on a 2xx text/xml response with an empty body.
C9_Witness ==
    /\ ResponseArrived
    /\ Is2xx(wire.code)
    /\ wire.headers.content_type = "text/xml"
    /\ wire.body = <<>>
    /\ outcome.status = "returned"
    /\ self.response_type = Some("xml")

\* C10: an application/octet-stream response without a filename
\* (Content-Disposition absent, or present without a filename attribute)
\* makes the operation raise PanWFapiError with attachment unset; with a
\* (non-empty) filename present, attachment holds that filename and the raw
\* body.
C10_AttachmentNeedsFilename ==
    (ResponseArrived /\ wire.headers.content_type = "application/octet-stream") =>
        /\ wire.headers.filename \in {Absent, NoParam} =>
               /\ outcome.status = "raised"
               /\ outcome.exc = "PanWFapiError"
               /\ ~Populated("attachment")
        /\ wire.headers.filename \notin {Absent, NoParam, ""} =>
               self.attachment = Some([filename |-> wire.headers.filename,
                                       content |-> wire.body])

\* ------------------------------------------------------------------------
\* Reading a multipart body back
\* ------------------------------------------------------------------------
StartsWith(b, sep) == Len(b) >= Len(sep) /\ SubSeq(b, 1, Len(sep)) = sep

\* the pieces of b between the occurrences of sep, found left to right;
\* piece is the piece being collected
RECURSIVE SplitOn(_, _, _)
SplitOn(b, sep, piece) ==
    IF b = <<>> THEN <<piece>>
    ELSE IF StartsWith(b, sep)
    THEN <<piece>> \o SplitOn(SubSeq(b, Len(sep) + 1, Len(b)), sep, <<>>)
    ELSE SplitOn(Tail(b), sep, Append(piece, Head(b)))

\* the pieces before and after the first occurrence of sep
Partition(b, sep) ==
    LET pieces == SplitOn(b, sep, <<>>)
    IN  <<pieces[1], SubSeq(b, Len(pieces[1]) + Len(sep) + 1, Len(b))>>

\* a piece found between two delimiter lines, read as one part: the CRLF
\* after the delimiter, the header lines, an empty line, the body, and the
\* CRLF before the next delimiter
WellFramed(piece) ==
    /\ Len(piece) >= 2
    /\ piece[1] = "CRLF"
    /\ piece[Len(piece)] = "CRLF"

ReadPart(piece) ==
    LET halves == Partition(SubSeq(piece, 2, Len(piece) - 1), <<"CRLF", "CRLF">>)
    IN  [headers |-> SplitOn(halves[1], <<"CRLF">>, <<>>), body |-> halves[2]]

\* the pieces of a body holding the parts, given all pieces
Inner(pieces) == SubSeq(pieces, 2, Len(pieces) - 1)

BodyOf(part) == IF part.body # None THEN part.body[1] ELSE <<>>

\* the token after "boundary=" in the Content-Type header
HeaderBoundary(headers) == headers[3]

\* C11: whenever http_headers() and http_body() have been called on a form,
\* the Content-Type header names the form's boundary; the body starts with
\* the delimiter line and ends with the closing delimiter; splitting the
\* body on "--" followed by the boundary of the header gives one piece per
\* part added, in insertion order, each being CRLF, the part's header lines
\* joined by CRLF, an empty line, the part's body, CRLF.
C11_SerializeSplitRoundTrip ==
    mime # None =>
        LET boundary == HeaderBoundary(mime[1].headers)
            pieces == SplitOn(mime[1].body, <<"--", boundary>>, <<>>)
        IN  /\ mime[1].headers[1] = "Content-Type"
            /\ boundary = formdata.boundary
            /\ Len(pieces) = Len(formdata.parts) + 2
            /\ pieces[1] = <<>>
            /\ pieces[Len(pieces)] = <<"--">>
            /\ \A i \in 1..Len(formdata.parts) :
                   /\ WellFramed(Inner(pieces)[i])
                   /\ ReadPart(Inner(pieces)[i]) =
                          [headers |-> formdata.parts[i].headers,
                           body |-> BodyOf(formdata.parts[i])]

\* header lines of a part, told by their first token
IsContentDisposition(header) ==
    header # <<>> /\ header[1] = "Content-Disposition: form-data"

IsContentType(header) ==
    header = <<"Content-Type: application/octet-stream">>

HasContentType(part) ==
    \E k \in 1..Len(part.headers) : IsContentType(part.headers[k])

\* C12 as stated: every part built through add_field or add_file has a
\* Content-Disposition line as its first header; a field part has no
\* Content-Type header; a file part has the header Content-Type:
\* application/octet-stream, whether or not a filename or a body was given.
C12_PartHeaders ==
    /\ Len(added) = Len(formdata.parts)
    /\ \A i \in 1..Len(formdata.parts) :
           LET part == formdata.parts[i]
           IN  /\ part.headers # <<>>
               /\ IsContentDisposition(part.headers[1])
               /\ added[i].op = "add_field" => ~HasContentType(part)
               /\ added[i].op = "add_file" => HasContentType(part)

\* C12 amended: every part built through add_field or add_file has a
\* Content-Disposition line as its first header, carrying the name and,
\* for a file part given a filename, the filename; a field part has no other
\* header; a file part has the header Content-Type: application/octet-stream
\* as its second and last header exactly when a body was given, and no other
\* header when the body was omitted.
C12_PartHeadersTypedWithBody ==
    /\ Len(added) = Len(formdata.parts)
    /\ \A i \in 1..Len(formdata.parts) :
           LET part == formdata.parts[i]
               disposition ==
                   <<"Content-Disposition: form-data">>
                       \o <<"; ", "name", "=", "\"", added[i].name, "\"">>
                       \o (IF added[i].filename # None
                           THEN <<"; ", "filename", "=", "\"">>
                                    \o added[i].filename[1] \o <<"\"">>
                           ELSE <<>>)
           IN  /\ part.headers # <<>>
               /\ part.headers[1] = disposition
               /\ added[i].op = "add_field" => Len(part.headers) = 1
               /\ (added[i].op = "add_file" /\ added[i].body # None) =>
                      /\ Len(part.headers) = 2
                      /\ IsContentType(part.headers[2])
               /\ (added[i].op = "add_file" /\ added[i].body = None) =>
                      Len(part.headers) = 1

\* C12 witness: a form holds a file part added with a filename and without
\* a body next to a file part added with a body; the first has the
\* Content-Disposition line only.
C12_Witness ==
    \E i, j \in 1..Len(formdata.parts) :
        /\ added[i].op = "add_file"
        /\ added[i].filename # None
        /\ added[i].body = None
        /\ ~HasContentType(formdata.parts[i])
        /\ added[j].op = "add_file"
        /\ added[j].body # None
        /\ HasContentType(formdata.parts[j])

\* ------------------------------------------------------------------------
\* What submit puts on the wire
\* ------------------------------------------------------------------------
\* a submit request is with the opener
SubmitSent == pc = "sent" /\ call.op = "submit"

\* the parts of the request body, read back with the boundary its
\* Content-Type header names
SentParts ==
    LET pieces == SplitOn(call.request.data[1],
                          <<"--", HeaderBoundary(call.request.headers[1])>>,
                          <<>>)
    IN  [i \in 1..(Len(pieces) - 2) |-> ReadPart(pieces[i + 1])]

Disposition(name) ==
    <<"Content-Disposition: form-data", "; ", "name", "=", "\"", name, "\"">>

\* a part as a receiver reads it: a plain field, a file part with a filename
FieldPart(name, value) == [headers |-> <<Disposition(name)>>, body |-> value]

FilePart(filename, body) ==
    [headers |-> <<Disposition("file")
                       \o <<"; ", "filename", "=", "\"">> \o filename \o <<"\"">>,
                   <<"Content-Type: application/octet-stream">>>>,
     body |-> body]

Sends(part) == \E i \in 1..Len(SentParts) : SentParts[i] = part

\* text is the items one per line: an LF between consecutive items and
\* nothing after the last
OnePerLine(text, items) ==
    /\ Len(text) = 2 * Len(items) - 1
    /\ \A k \in 1..Len(items) : text[2 * k - 1] = items[k]
    /\ \A k \in 1..(Len(items) - 1) : text[2 * k] = "LF"

\* C13: a submit request made for a links list (the one argument supplied)
\* holds, for a list of two or more links not starting with the marker
\* panlnk, a file part whose body is the marker followed by all links in
\* order, one per line; for a list of two or more links starting with the
\* marker, a file part whose body is the links as given, one per line; for
\* a list of one link, a plain field link holding it, and the request goes
\* to the single-link endpoint.
C13_LinksPayload ==
    (SubmitSent /\ Supplied(call.args.links)) =>
        LET links == call.args.links[1]
        IN  /\ (Len(links) >= 2 /\ links[1] # "panlnk") =>
                   \E body \in {SentParts[i].body : i \in 1..Len(SentParts)} :
                       /\ Sends(FilePart(<<"pan">>, body))
                       /\ OnePerLine(body, <<"panlnk">> \o links)
            /\ (Len(links) >= 2 /\ links[1] = "panlnk") =>
                   \E body \in {SentParts[i].body : i \in 1..Len(SentParts)} :
                       /\ Sends(FilePart(<<"pan">>, body))
                       /\ OnePerLine(body, links)
            /\ Len(links) = 1 =>
                   /\ Sends(FieldPart("link", <<links[1]>>))
                   /\ call.request.path = "/publicapi/submit/link"

\* C14: whenever an operation raises PanWFapiError on a response whose
\* status is outside 200..299, the message of the error is HTTP Error with
\* the status code and the reason of that response (the reason phrase
\* received, or the one substituted for an empty phrase), whatever the
\* classifier made of the body.
C14_HttpErrorMessage ==
    (ResponseArrived /\ ~Is2xx(wire.code) /\ outcome.exc = "PanWFapiError") =>
        outcome.message \in
            {Some(Msg("HTTP Error", wire.code, wire.reason)),
             Some(Msg("HTTP Error", wire.code,
                      substitute_reason(wire.code, wire.reason)))}

\* the payload parts of a submit request: all but the apikey and agent
\* fields
IsCredential(part) ==
    part.headers = <<Disposition("apikey")>> \/ part.headers = <<Disposition("agent")>>

PayloadParts == {i \in 1..Len(SentParts) : ~IsCredential(SentParts[i])}

\* the kind of a payload part
PartKind(part) ==
    IF part.headers = <<Disposition("url")>> THEN "url"
    ELSE IF part.headers = <<Disposition("link")>> THEN "link"
    ELSE IF part = FilePart(<<"pan">>, part.body) /\ part.body # <<>>
              /\ part.body[1] = "panlnk" THEN "links"
    ELSE IF Len(part.headers) = 2 /\ IsContentType(part.headers[2]) THEN "file"
    ELSE "other"

\* C15: every submit request that is sent, also when an argument other than
\* the supplied one was given as an empty string or an empty list, goes to
\* the endpoint of its payload and holds exactly one payload part:
\* /submit/file with a file part, /submit/url with a url field,
\* /submit/link with a link field, /submit/links with a multi-link file
\* part.
C15_EndpointMatchesPayload ==
    SubmitSent =>
        /\ Cardinality(PayloadParts) = 1
        /\ \A i \in PayloadParts :
               call.request.path =
                   CASE PartKind(SentParts[i]) = "file" -> "/publicapi/submit/file"
                     [] PartKind(SentParts[i]) = "url" -> "/publicapi/submit/url"
                     [] PartKind(SentParts[i]) = "link" -> "/publicapi/submit/link"
                     [] PartKind(SentParts[i]) = "links" -> "/publicapi/submit/links"
                     [] OTHER -> "(none)"

====
